---------------------------- MODULE Spec2Model ----------------------------
(***************************************************************************)
(* sh_krypt: a multi-tenant gateway in front of per-tenant object storage. *)
(*                                                                         *)
(* The module models three parts of the service, each under its own        *)
(* specification:                                                          *)
(*   Spec     the quota ledger: tenant resolution by API key, the quota    *)
(*            adjustment (PATCH quota) of app/routes/company.py and of     *)
(*            app/api.py, and the quota-availability check;                *)
(*   SpecReg  tenant registration (POST register) of both applications;    *)
(*   SpecJwt  the user-token signer and validator of app/auth.             *)
(*                                                                         *)
(* Modelling conventions.                                                  *)
(*  - A nullable column or optional field holds NULL (the empty set) or    *)
(*    Some(n) (the singleton {n}).                                         *)
(*  - A request is a small process: the database read of its dependency or *)
(*    first query, the handler's commit, and the refresh that builds the   *)
(*    response are separate steps, because uvicorn runs four worker        *)
(*    processes (main.py:10) against one database and no handler takes a   *)
(*    row lock or uses an atomic UPDATE expression.                        *)
(*  - The route handlers read request fields (company_key_prefix, loc_tag, *)
(*    content_size) and model classes that src/app/schemas.py and          *)
(*    src/app/models.py do not declare; the handlers are modelled as       *)
(*    written, with those declarations taken to exist.                     *)
(***************************************************************************)
EXTENDS Integers, Sequences, FiniteSets, TLC

VARIABLES
    companies,        \* the companies table: a sequence of rows, in insertion order
    initialUsed,      \* history: used_quota of every row in the initial state
    reqs,             \* the quota-ledger requests in flight (Spec)
    uploaderConfigs,  \* the uploader_config table (SpecReg)
    regTokens,        \* the registration-token store of spec section 4.7 (SpecReg)
    regs,             \* the registration requests in flight (SpecReg)
    clock,            \* time.time(), in ticks of 1/TicksPerSecond s (SpecJwt)
    keyFiles,         \* the state of each key file on disk (SpecJwt)
    userTokens,       \* the user tokens sign_jwt has issued, with their time of issue
    lastSign,         \* the sign_jwt call made at this instant, if any
    lastDecode,       \* the decode_jwt call made at this instant, if any
    adminClients,     \* the AdminClient table (SpecClient)
    lastCredential,   \* the credential check made at this instant, if any
    collation,        \* the collation of the companies table's string columns
    s3Objects,        \* the keys of the objects in the bucket (SpecS3)
    lastS3            \* the last storage request and its response (SpecS3)

quotaVars == <<initialUsed, reqs>>
regVars == <<uploaderConfigs, regTokens, regs>>
jwtVars == <<clock, keyFiles, userTokens, lastSign, lastDecode>>
clientVars == <<adminClients, lastCredential>>
s3Vars == <<collation, s3Objects, lastS3>>
vars == <<companies, quotaVars, regVars, jwtVars, clientVars, s3Vars>>

-----------------------------------------------------------------------------
(* Bounds *)

MaxRequests == 2      \* quota-ledger requests per behaviour
MaxDelta == 1         \* largest amount (CompanyQuotaUpdate.used_quota) of a request
MaxQuota == 2         \* largest quota value of an initial row
MaxRegistrations == 2 \* registration requests per behaviour
TicksPerSecond == 4   \* resolution of the clock
MaxIssueTick == 7     \* sign_jwt is called at ticks 0..MaxIssueTick
MaxUserTokens == 1    \* user tokens issued per behaviour
SlackSeconds == 2     \* the clock runs this long past the last expiry
MaxExp == 2           \* the latest exp claim of a presented service token, seconds

\* Program constants
JWT_TTL == 600        \* auth_handler.py:13, seconds
MinContentLength == 1024 \* routes/company.py:307, bytes
ExpiresIn == 3600     \* routes/company.py:309 and 332, seconds
AccessTokenMinutes == 15 \* shbkp.py:99, minutes

-----------------------------------------------------------------------------
(* Nullable values *)

NULL == {}
Some(n) == {n}
Get(x) == CHOOSE n \in x : TRUE
\* Python truthiness of an Optional[int]: None and 0 are falsy.
Falsy(x) == x = NULL \/ x = Some(0)
Max(a, b) == IF a >= b THEN a ELSE b

Requests == 1..MaxRequests
Amounts == {NULL} \cup {Some(n) : n \in 0..MaxDelta}
NullableQuota == {NULL} \cup {Some(n) : n \in 0..MaxQuota}
\* file_txn_type: 1 for upload, 2 for delete (schemas.py:44)
TxnTypes == {1, 2}
\* the X-Company-Api-Key / company_api_key header values a caller presents:
\* "" is the empty header, "k1" the key of the first tenant, "k9" a key no
\* tenant has
PresentedKeys == {"", "k1", "k9"}
Apps == {"routes", "api"}

\* A company name is a sequence of characters.
Lower(c) == IF c = "A" THEN "a" ELSE IF c = "B" THEN "b" ELSE c
IsAlnum(c) == c \in {"A", "a", "B", "b"}
Hyphenate(s) == [i \in 1..Len(s) |-> IF IsAlnum(s[i]) THEN Lower(s[i]) ELSE "-"]
RECURSIVE Squeeze(_)
Squeeze(s) ==
    IF s = <<>> THEN <<>>
    ELSE LET rest == Squeeze(Tail(s))
         IN IF Head(s) = "-" /\ (rest = <<>> \/ Head(rest) = "-")
            THEN rest
            ELSE <<Head(s)>> \o rest
\* python-slugify: lower-case, every run of other characters becomes one
\* "-", and leading and trailing "-" are stripped.
slugify(name) ==
    LET t == Squeeze(Hyphenate(name))
    IN IF t # <<>> /\ Head(t) = "-" THEN Tail(t) ELSE t

\* The names registration requests submit: "Ab", "ab" and "a b" differ as
\* names, and "Ab" and "ab" share the slug "ab".
CompanyNames == { <<"A", "b">>, <<"a", "b">>, <<"a", " ", "b">> }

Row(name, slug, key, total, used, bucket, region, access_key, secret_key) ==
    [company_name |-> name, company_slug |-> slug, company_api_key |-> key,
     total_usage_quota |-> total, used_quota |-> used, aws_bucket_name |-> bucket,
     aws_bucket_region |-> region, aws_access_key |-> access_key,
     aws_secret_key |-> secret_key]

-----------------------------------------------------------------------------
(* Responses *)

Response(status, detail, used, avail) ==
    [status |-> status, detail |-> detail, used_quota |-> used, is_available |-> avail]
NoResponse == Response(0, "", NULL, {})
Error(status, detail) == Response(status, detail, NULL, {})

IdleRequest ==
    [pc |-> "new", app |-> "", op |-> "", key |-> "", txn |-> 0, amount |-> NULL,
     row |-> 0, used |-> NULL, total |-> NULL, resp |-> NoResponse]

-----------------------------------------------------------------------------
(* Tenant resolution *)

\* db.query(Company).filter(Company.company_api_key == key).first(): the row
\* index of the first match, 0 when there is none.
\* Company.company_api_key is a String column without a collation
\* (models.py:66): the MariaDB server's default collation compares it, and
\* the default ones ignore case; a binary one compares exactly.
Collations == {"general_ci", "bin"}
\* The lower-case form of a presented key.
LowerKey(key) == IF key = "K1" THEN "k1" ELSE key
SqlEquals(stored, value) ==
    IF collation = "bin" THEN stored = value
    ELSE LowerKey(stored) = LowerKey(value)

FirstByApiKey(table, key) ==
    LET hits == {i \in 1..Len(table) : SqlEquals(table[i].company_api_key, key)}
    IN IF hits = {} THEN 0 ELSE CHOOSE i \in hits : \A j \in hits : i <= j

\* The response of a failed resolution; status 0 when the key resolves.
\* shbkp.get_company_by_api_key answers 400 for both failures, api.py answers
\* 400 for an empty header and 404 for an unknown key.
ResolveError(app, table, key) ==
    IF key = ""
    THEN Error(400, "Company API key header is required")
    ELSE IF FirstByApiKey(table, key) = 0
         THEN IF app = "routes" THEN Error(400, "Company not found")
                                ELSE Error(404, "Company not found")
         ELSE NoResponse

\* The request arrives and its tenant is loaded into the ORM session.
\* Requests are numbered in arrival order.
Resolve(r) ==
    /\ reqs[r].pc = "new"
    /\ r > 1 => reqs[r - 1].pc # "new"
    /\ \E app \in Apps, op \in {"quota", "avail"}, key \in PresentedKeys,
          txn \in TxnTypes, amount \in Amounts :
        /\ app = "api" => op = "quota"
        /\ op = "avail" => (txn = 1 /\ amount = NULL)
        /\ LET err == ResolveError(app, companies, key)
               i == FirstByApiKey(companies, key)
               base == [IdleRequest EXCEPT !.app = app, !.op = op, !.key = key,
                                           !.txn = txn, !.amount = amount]
           IN reqs' = [reqs EXCEPT ![r] =
                IF err.status # 0
                THEN [IdleRequest EXCEPT !.pc = "done", !.app = app, !.key = key,
                                         !.resp = err]
                ELSE [base EXCEPT !.pc = "resolved", !.row = i,
                                  !.used = companies[i].used_quota,
                                  !.total = companies[i].total_usage_quota]]
    /\ UNCHANGED <<companies, initialUsed, regVars, jwtVars, clientVars, s3Vars>>

-----------------------------------------------------------------------------
(* Quota adjustment *)

\* routes/company.py:151-163: the value the handler assigns to used_quota.
\* int(str(None)) raises: the handlers below test Raises first.
MutAdjustedRoutes(used, txn, amount) ==
    IF amount = NULL THEN used
    ELSE Some(Get(amount))
AdjustedRoutes(used, txn, amount) ==
    IF amount = NULL THEN used
    ELSE IF txn = 1 THEN Some(Get(used) + Get(amount))
    ELSE Some(Get(amount))

\* api.py:113-117
AdjustedApi(used, txn, amount) ==
    IF amount = NULL THEN used
    ELSE IF txn = 1 THEN Some(Get(used) + Get(amount))
    ELSE Some(Get(used) - Get(amount))

\* routes/company.py:142: the handler refuses a tenant whose quota fields are
\* both falsy.
QuotaInvalid(total, used) == Falsy(total) /\ Falsy(used)

\* An arithmetic on None raises (ValueError from int('None') in routes,
\* TypeError in api.py): the request ends with an unhandled 500.
Raises(app, used, txn, amount) ==
    /\ amount # NULL
    /\ used = NULL
    /\ (app = "routes" => txn = 1)

\* The ORM flushes used_quota only when the assigned value differs from the
\* loaded one; the UPDATE then stores the assigned value.
MutFlush(table, i, loaded, assigned) ==
    IF assigned = loaded THEN table
    ELSE [j \in DOMAIN table |-> [table[j] EXCEPT !.used_quota = assigned]]
Flush(table, i, loaded, assigned) ==
    IF assigned = loaded THEN table
    ELSE [table EXCEPT ![i].used_quota = assigned]

\* PATCH /api/companies/quota (routes/company.py:131-168), up to db.commit().
update_company_quota(r) ==
    LET q == reqs[r] IN
    /\ q.pc = "resolved" /\ q.op = "quota" /\ q.app = "routes"
    /\ IF QuotaInvalid(q.total, q.used)
       THEN /\ reqs' = [reqs EXCEPT ![r].pc = "done",
                                    ![r].resp = Error(500, "Company quota is invalid")]
            /\ UNCHANGED companies
       ELSE IF Raises("routes", q.used, q.txn, q.amount)
       THEN /\ reqs' = [reqs EXCEPT ![r].pc = "done",
                                    ![r].resp = Error(500, "Internal Server Error")]
            /\ UNCHANGED companies
       ELSE /\ companies' = Flush(companies, q.row, q.used,
                                  AdjustedRoutes(q.used, q.txn, q.amount))
            /\ reqs' = [reqs EXCEPT ![r].pc = "committed"]
    /\ UNCHANGED <<initialUsed, regVars, jwtVars, clientVars, s3Vars>>

\* PATCH /companies/quota (api.py:88-122), up to db.commit().
api_update_company_quota(r) ==
    LET q == reqs[r] IN
    /\ q.pc = "resolved" /\ q.op = "quota" /\ q.app = "api"
    /\ IF Raises("api", q.used, q.txn, q.amount)
       THEN /\ reqs' = [reqs EXCEPT ![r].pc = "done",
                                    ![r].resp = Error(500, "Internal Server Error")]
            /\ UNCHANGED companies
       ELSE /\ companies' = Flush(companies, q.row, q.used,
                                  AdjustedApi(q.used, q.txn, q.amount))
            /\ reqs' = [reqs EXCEPT ![r].pc = "committed"]
    /\ UNCHANGED <<initialUsed, regVars, jwtVars, clientVars, s3Vars>>

\* db.refresh(company); return company: the response carries the row as the
\* database holds it now.
Respond(r) ==
    /\ reqs[r].pc = "committed"
    /\ reqs' = [reqs EXCEPT ![r].pc = "done",
                            ![r].resp = Response(200, "", companies[reqs[r].row].used_quota, {})]
    /\ UNCHANGED <<companies, initialUsed, regVars, jwtVars, clientVars, s3Vars>>

-----------------------------------------------------------------------------
(* Quota availability *)

\* routes/company.py:118: the check answers 500 when either field is falsy.
AvailabilityInvalid(total, used) == Falsy(total) \/ Falsy(used)

\* GET /api/companies/quota/is-available (routes/company.py:114-128)
is_company_quota_available(r) ==
    LET q == reqs[r] IN
    /\ q.pc = "resolved" /\ q.op = "avail"
    /\ reqs' = [reqs EXCEPT ![r].pc = "done", ![r].resp =
            IF AvailabilityInvalid(q.total, q.used)
            THEN Error(500, "Company quota is invalid")
            ELSE Response(200, "", q.used, {Get(q.total) > Get(q.used)})]
    /\ UNCHANGED <<companies, initialUsed, regVars, jwtVars, clientVars, s3Vars>>

-----------------------------------------------------------------------------
(* Tenant registration *)

Registrations == 1..MaxRegistrations
\* The bearer strings a registration presents: "" is a request without an
\* Authorization header, "t1" the registration token the store may hold,
\* "tx" a string that was never issued.
TokenStrings == {"t1"}
PresentedTokens == {"", "t1", "tx"}
\* The API keys the generators draw; "k1" is the key of the seeded tenant.
GeneratedKeys == {"k1", "k2"}

\* The registration-token store (spec 3 and 4.7): a token is absent until
\* issued, valid until its expiry passes, and carries the tenant id it is
\* bound to (0: unbound). No code under src/ reads or writes the store.
NoTokens == [t \in TokenStrings |-> [state |-> "absent", tenant |-> 0]]
TokenValid(store, t) ==
    /\ t \in DOMAIN store
    /\ store[t].state = "valid"
    /\ store[t].tenant = 0
\* History: what the store holds for a presented bearer string.
Held(store, t) ==
    IF t = "" THEN "none"
    ELSE IF t \notin DOMAIN store \/ store[t].state = "absent" THEN "unknown"
    ELSE IF store[t].tenant # 0 THEN "bound"
    ELSE store[t].state

UploaderConfig(active, quota, bucket, region, access_key, secret_key) ==
    [is_active |-> active, default_quota |-> quota, aws_bucket_name |-> bucket,
     aws_bucket_region |-> region, aws_access_key |-> access_key,
     aws_secret_key |-> secret_key]
\* db.query(UploaderConfig).where(UploaderConfig.is_active == 1).first():
\* the index of the first active record, 0 when there is none.
FirstActiveConfig(table) ==
    LET hits == {i \in 1..Len(table) : table[i].is_active = 1}
    IN IF hits = {} THEN 0 ELSE CHOOSE i \in hits : \A j \in hits : i <= j

RegResponse(status, detail) == [status |-> status, detail |-> detail]
IdleRegistration ==
    [pc |-> "new", app |-> "", name |-> <<>>, token |-> "", held |-> "",
     key |-> "", config |-> 0, row |-> 0, resp |-> RegResponse(0, "")]

\* routes/company.py:42-54: true when a company with this name and its slug
\* exists.
is_valid_company(company_name, table) ==
    \E i \in 1..Len(table) :
        /\ table[i].company_name = company_name
        /\ table[i].company_slug = slugify(company_name)

\* POST /api/companies/register (routes/company.py:57-78): the bearer
\* extraction of oauth2_scheme, the company query, the key generation and
\* the uploader_config query. The handler never looks at the token's value.
register_company(r) ==
    /\ regs[r].pc = "new"
    /\ r > 1 => regs[r - 1].pc # "new"
    /\ \E name \in CompanyNames, token \in PresentedTokens, key \in GeneratedKeys :
        LET base == [IdleRegistration EXCEPT !.app = "routes", !.name = name,
                                             !.token = token,
                                             !.held = Held(regTokens, token)]
            found_company == is_valid_company(name, companies)
            found_aws_config == FirstActiveConfig(uploaderConfigs)
        IN regs' = [regs EXCEPT ![r] =
            IF token = ""
            THEN [base EXCEPT !.pc = "done", !.resp = RegResponse(401, "Not authenticated")]
            ELSE IF ~found_company
            THEN [base EXCEPT !.pc = "done",
                              !.resp = RegResponse(409, "Company already exists")]
            ELSE IF found_aws_config = 0
            THEN [base EXCEPT !.pc = "done",
                              !.resp = RegResponse(404, "Active AWS Config is not found")]
            ELSE [base EXCEPT !.pc = "checked", !.key = key, !.config = found_aws_config]]
    /\ UNCHANGED <<companies, quotaVars, uploaderConfigs, regTokens, jwtVars, clientVars, s3Vars>>

\* Company(..., usage_quota=0, ...) (routes/company.py:79-93). The snapshot's
\* Company has no usage_quota attribute (models.py:70 names the column
\* used_quota), and the declarative constructor refuses a keyword that is no
\* attribute of the class with a TypeError; with a Company that declares
\* usage_quota the row is built and used_quota takes its column default 0.
ConstructorOutcomes == {"TypeError", "built"}

\* routes/company.py:79-100: the new row and its commit.
register_company_commit(r) ==
    LET g == regs[r]
        c == uploaderConfigs[g.config]
    IN
    /\ g.pc = "checked"
    /\ \E constructed \in ConstructorOutcomes :
        IF constructed = "TypeError"
        THEN /\ regs' = [regs EXCEPT ![r].pc = "done",
                                     ![r].resp = RegResponse(500, "Internal Server Error")]
             /\ UNCHANGED companies
        ELSE /\ companies' = Append(companies,
                    Row(g.name, slugify(g.name), g.key, c.default_quota, Some(0),
                        c.aws_bucket_name, c.aws_bucket_region, c.aws_access_key,
                        c.aws_secret_key))
             /\ regs' = [regs EXCEPT ![r].pc = "done", ![r].row = Len(companies) + 1,
                                     ![r].resp = RegResponse(201, "")]
    /\ UNCHANGED <<quotaVars, uploaderConfigs, regTokens, jwtVars, clientVars, s3Vars>>

\* POST /register/company (api.py:125-189). The handler takes no token. Its
\* row has no company_slug (CompanyRegister has none and the handler derives
\* none), and the column is NOT NULL without a default (models.py:65): the
\* INSERT fails and the request ends with an unhandled 500.
api_register_company(r) ==
    /\ regs[r].pc = "new"
    /\ r > 1 => regs[r - 1].pc # "new"
    /\ \E name \in CompanyNames, key \in GeneratedKeys :
        LET base == [IdleRegistration EXCEPT !.app = "api", !.name = name,
                                             !.held = "none", !.pc = "done"]
            existing_company_name ==
                \E i \in 1..Len(companies) : companies[i].company_name = name
            existing_api_key == FirstByApiKey(companies, key) # 0
        IN regs' = [regs EXCEPT ![r] =
            IF existing_company_name
            THEN [base EXCEPT !.resp = RegResponse(409, "Company name already exists")]
            ELSE IF existing_api_key
            THEN [base EXCEPT !.resp = RegResponse(500, "Could not generate a unique API key. Please try again.")]
            ELSE [base EXCEPT !.resp = RegResponse(500, "Internal Server Error")]]
    /\ UNCHANGED <<companies, quotaVars, uploaderConfigs, regTokens, jwtVars, clientVars, s3Vars>>

\* Spec 4.7 issue: an authenticated admin action stores a token with a
\* 15-minute expiry and no bound tenant.
IssueToken(t) ==
    /\ regTokens[t].state = "absent"
    /\ regTokens' = [regTokens EXCEPT ![t].state = "valid"]
    /\ UNCHANGED <<companies, quotaVars, uploaderConfigs, regs, jwtVars, clientVars, s3Vars>>

\* The token's expiry passes.
ExpireToken(t) ==
    /\ regTokens[t].state = "valid"
    /\ regTokens' = [regTokens EXCEPT ![t].state = "expired"]
    /\ UNCHANGED <<companies, quotaVars, uploaderConfigs, regs, jwtVars, clientVars, s3Vars>>

-----------------------------------------------------------------------------
(* User tokens (app/auth/auth_handler.py) *)

\* A token is its claims and the key that signed it. jose's encode signs the
\* claims with the key it is given; decode returns the claims when the
\* signature verifies under the public key and raises JWTError otherwise.
encode(payload, key) == [payload |-> payload, signed_by |-> key]
VerifyingKey(signing_key) ==
    CASE signing_key = "user_private" -> "user_public"
      [] signing_key = "service_private" -> "service_public"
      [] signing_key = "secret_key" -> "secret_key"
      [] OTHER -> ""
Verifies(token, key) == key # "" /\ VerifyingKey(token.signed_by) = key
NoJwt == encode([user_id |-> ""], "")

\* payload.get(name): None when the claim is absent.
MutClaim(payload, name) ==
    IF name \in DOMAIN payload THEN Some(payload[name])
    ELSE IF name = "expires" THEN Some(2 * JWT_TTL)
    ELSE NULL
Claim(payload, name) == IF name \in DOMAIN payload THEN Some(payload[name]) ELSE NULL

\* Python's round(): to the nearest whole second, a half to the even one.
Round(t) ==
    LET q == t \div TicksPerSecond
        r == t % TicksPerSecond
    IN IF 2 * r < TicksPerSecond THEN q
       ELSE IF 2 * r > TicksPerSecond THEN q + 1
       ELSE IF q % 2 = 0 THEN q ELSE q + 1

\* auth_handler.py:13: round(time.time() + 600)
Expires(now) == Round(now + JWT_TTL * TicksPerSecond)

\* auth_handler.py:35: expires >= time.time()
MutNotExpired(expires, now) == expires * TicksPerSecond <= now
NotExpired(expires, now) == expires * TicksPerSecond >= now

\* utils.read_key_file: the file's text, None when it cannot be read.
\* Path(filepath).read_text() gives the text of a readable file, raises
\* FileNotFoundError for a missing one (caught at utils.py:29) and another
\* exception for one that cannot be read (caught at utils.py:31); after
\* either except clause the function ends without a return value.
KeyFileStates == {"readable", "missing", "unreadable"}
KeyFileNames == {"user_private", "user_public", "service_public"}
MutReadOutcome(state) ==
    CASE state = "readable" -> "text"
      [] state = "missing" -> "none"
      [] OTHER -> "raise"
ReadOutcome(state) == IF state = "readable" THEN "text" ELSE "none"
read_key_file(which) ==
    IF ReadOutcome(keyFiles[which]) = "text" THEN Some(which) ELSE NULL
ReadRaises(which) == ReadOutcome(keyFiles[which]) = "raise"

NoCall == [called |-> FALSE, token |-> NoJwt, result |-> NULL, raised |-> FALSE]
Call(token, result) ==
    [called |-> TRUE, token |-> token, result |-> result, raised |-> FALSE]
Raised(token) == [called |-> TRUE, token |-> token, result |-> NULL, raised |-> TRUE]

JwtIdle ==
    /\ clock = 0
    /\ keyFiles = [f \in KeyFileNames |-> "readable"]
    /\ userTokens = {}
    /\ lastSign = NoCall
    /\ lastDecode = NoCall

MaxClock == MaxIssueTick + (JWT_TTL + SlackSeconds) * TicksPerSecond
UserIds == {"u1"}

\* sign_jwt(user_id) (auth_handler.py:9-18)
sign_jwt(user_id) ==
    /\ Cardinality(userTokens) < MaxUserTokens
    /\ clock <= MaxIssueTick
    /\ LET payload == [user_id |-> user_id, expires |-> Expires(clock)]
           read_private_key == read_key_file("user_private")
       IN IF ReadRaises("user_private")
          THEN /\ lastSign' = Raised(NoJwt)
               /\ UNCHANGED userTokens
          ELSE IF read_private_key = NULL
          THEN /\ lastSign' = Call(NoJwt, NULL)
               /\ UNCHANGED userTokens
          ELSE LET token == encode(payload, Get(read_private_key))
               IN /\ lastSign' = Call(token, Some(token))
                  /\ userTokens' = userTokens \cup {[token |-> token, at |-> clock]}
    /\ UNCHANGED <<clock, keyFiles, lastDecode>>
    /\ UNCHANGED <<companies, quotaVars, regVars, clientVars, s3Vars>>

\* The result of decode_jwt(token) (auth_handler.py:21-43): the claims, or
\* None.
DecodeResult(token, now) ==
    LET read_public_key == read_key_file("user_public")
    IN IF read_public_key = NULL THEN NULL
       ELSE IF ~Verifies(token, Get(read_public_key)) THEN NULL
       ELSE LET decoded_token == token.payload
                expires == Claim(decoded_token, "expires")
            IN IF expires = NULL THEN NULL
               ELSE IF NotExpired(Get(expires), now) THEN Some(decoded_token)
               ELSE NULL

\* The tokens a caller presents to decode_jwt: those sign_jwt issued in this
\* behaviour, tokens the private key signed earlier (any expiry), a token
\* signed with another key, and a signed token without the expires claim.
SampleExpiries == {1, JWT_TTL, JWT_TTL + 1}
IssuableJwts ==
    {encode([user_id |-> u, expires |-> Expires(t)], "user_private") :
        u \in UserIds, t \in 0..MaxIssueTick}
OtherJwts ==
    {encode([user_id |-> "u1", expires |-> x], "user_private") : x \in SampleExpiries}
    \cup {encode([user_id |-> "u1", expires |-> JWT_TTL + 1], "other_private")}
    \cup {encode([user_id |-> "u1"], "user_private")}

\* create_access_token(data, expires_delta=None) (shbkp.py:97-101): the
\* claims of data and exp, a quarter of an hour from now in whole seconds.
create_access_token(data, now, key) ==
    encode(data @@ [exp |-> now \div TicksPerSecond + AccessTokenMinutes * 60], key)

\* Whether auth_handler's PRIVATE_KEY and shbkp's PRIVATE_KEY_FILE_PATH name
\* the same file is a matter of configuration: each signer is taken with
\* either key.
SigningKeys == {"user_private", "service_private"}
\* The service tokens create_access_token issues while the clock runs.
AccessTokens ==
    {create_access_token([sub |-> "c1", role |-> "client", scope |-> "all"], t, k) :
        t \in {0, MaxExp * TicksPerSecond}, k \in SigningKeys}
\* The user tokens sign_jwt issues, under either key.
UserTokensIssuable == {encode(j.payload, k) : j \in IssuableJwts, k \in SigningKeys}

PresentedJwts == {e.token : e \in userTokens} \cup OtherJwts \cup AccessTokens

decode_jwt(token) ==
    /\ token \in PresentedJwts
    /\ lastDecode' = IF ReadRaises("user_public") THEN Raised(token)
                      ELSE Call(token, DecodeResult(token, clock))
    /\ UNCHANGED <<clock, keyFiles, userTokens, lastSign>>
    /\ UNCHANGED <<companies, quotaVars, regVars, clientVars, s3Vars>>

-----------------------------------------------------------------------------
(* Admin clients and service tokens (app/shbkp.py, app/utils.py) *)

ClientIds == {"c1"}
Secrets == {"s1", "s2"}

\* passlib's argon2 digest names its scheme; pwd_context.verify raises
\* UnknownHashError for a digest whose scheme it cannot identify.
hash_secret(secret) == [scheme |-> "argon2", secret |-> secret]
Digests == {hash_secret(x) : x \in Secrets} \cup {[scheme |-> "", secret |-> ""]}

\* What a call gives its caller: a returned value, an HTTPException, or
\* another exception that nothing in the function catches.
Return(detail, value) == [kind |-> "return", status |-> 200, detail |-> detail, value |-> value]
HttpError(status, detail) == [kind |-> "http", status |-> status, detail |-> detail, value |-> ""]
Uncaught(exception) == [kind |-> "raise", status |-> 500, detail |-> exception, value |-> ""]

NoCredential == [called |-> FALSE, op |-> "", token |-> NoJwt, outcome |-> Return("", "")]
Credential(op, token, outcome) ==
    [called |-> TRUE, op |-> op, token |-> token, outcome |-> outcome]

ClientIdle ==
    /\ adminClients = {}
    /\ lastCredential = NoCredential

\* jose's decode: JWTError for a signature that does not verify and for an
\* exp claim earlier than the current second.
MutJoseRejects(token, key, now) == ~Verifies(token, key)
JoseRejects(token, key, now) ==
    \/ ~Verifies(token, key)
    \/ /\ "exp" \in DOMAIN token.payload
       /\ token.payload.exp < now \div TicksPerSecond

\* get_current_client(db, token) (shbkp.py:104-140)
CurrentClient(token, now) ==
    LET payload == token.payload
        exp == Claim(payload, "exp")
        role == Claim(payload, "role")
        client_id == Claim(payload, "sub")
    IN IF keyFiles["service_public"] # "readable" THEN Uncaught("OSError")
       ELSE IF JoseRejects(token, "service_public", now)
            THEN HttpError(401, "Invalid token")
       ELSE IF exp = NULL THEN Uncaught("ValueError")
       ELSE IF role # Some("client") THEN HttpError(403, "Invalid role")
       ELSE IF client_id = NULL \/ Get(client_id) \notin {c.client_id : c \in adminClients}
            THEN HttpError(401, "Unknown client")
       ELSE Return("", Get(client_id))

\* validate_token(token) (utils.py:77-90)
ValidatedToken(token, now) ==
    LET payload == token.payload
        sub == Claim(payload, "sub")
        username == IF sub = NULL THEN "None" ELSE Get(sub)
    IN IF JoseRejects(token, "secret_key", now) THEN HttpError(401, "UnAuthorized")
       ELSE IF Claim(payload, "exp") = NULL THEN Uncaught("ValueError")
       ELSE IF Round(now) < payload.exp THEN Return("valid", username)
       ELSE Return("invalid", username)

\* verify_secret(secret, hashed_secret) (shbkp.py:27-28); verify_password
\* (utils.py:150-152) is the same call.
VerifiedSecret(secret, hashed_secret) ==
    IF hashed_secret.scheme # "argon2" THEN Uncaught("UnknownHashError")
    ELSE IF hashed_secret.secret = secret THEN Return("True", "")
    ELSE Return("False", "")

\* The bearer tokens presented: every combination of signing key and of the
\* role, sub and exp claims (each absent, good or bad), and a string that
\* is no token.
ExpSamples == {1, MaxExp}
RoleClaims == {<<>>} \cup {[role |-> x] : x \in {"client", "admin"}}
SubClaims == {<<>>} \cup {[sub |-> x] : x \in {"c1", "c9"}}
ExpClaims == {<<>>} \cup {[exp |-> x] : x \in ExpSamples}
ServiceTokens ==
    {encode(r @@ u @@ e, k) :
        r \in RoleClaims, u \in SubClaims, e \in ExpClaims,
        k \in {"service_private", "secret_key", "other_private"}}
    \cup {NoJwt}

\* create_client(client_id, client_secret, db) (shbkp.py:65-78)
create_client(client_id, client_secret) ==
    /\ client_id \notin {c.client_id : c \in adminClients}
    /\ adminClients' = adminClients \cup
            {[client_id |-> client_id, hashed_secret |-> hash_secret(client_secret)]}
    /\ lastCredential' = NoCredential
    /\ UNCHANGED <<companies, quotaVars, regVars, jwtVars, s3Vars>>

get_current_client(token) ==
    /\ lastCredential' = Credential("get_current_client", token, CurrentClient(token, clock))
    /\ UNCHANGED adminClients
    /\ UNCHANGED <<companies, quotaVars, regVars, jwtVars, s3Vars>>

validate_token(token) ==
    /\ lastCredential' = Credential("validate_token", token, ValidatedToken(token, clock))
    /\ UNCHANGED adminClients
    /\ UNCHANGED <<companies, quotaVars, regVars, jwtVars, s3Vars>>

verify_secret(secret, hashed_secret) ==
    /\ lastCredential' = Credential("verify_secret", NoJwt, VerifiedSecret(secret, hashed_secret))
    /\ UNCHANGED adminClients
    /\ UNCHANGED <<companies, quotaVars, regVars, jwtVars, s3Vars>>

-----------------------------------------------------------------------------
(* The storage broker (app/routes/company.py) *)

\* Object keys, like company names and slugs, are sequences of characters.
Slash == <<"/">>
StartsWith(key, prefix) ==
    /\ Len(prefix) <= Len(key)
    /\ SubSeq(key, 1, Len(prefix)) = prefix

\* What the requests carry.
LocTags == {<<>>, <<"t">>, <<"t", "2">>}
FileNames == {<<"f">>}
ContentSizes == {MinContentLength - 1, MinContentLength + 1}
\* "K1" differs from the first tenant's key in case only, "k" is a prefix of
\* it, "k9" is no tenant's key.
StorageKeys == {"", "k1", "k2", "K1", "k", "k9"}

\* f'{company.company_slug}/{request.loc_tag}/{request.file_name}'
UploadKey(company, loc_tag, file_name) ==
    company.company_slug \o Slash \o loc_tag \o Slash \o file_name
\* f'{company.company_slug}/{request.loc_tag}'
FolderPrefix(company, loc_tag) == company.company_slug \o Slash \o loc_tag

\* The two tenants of the storage specification share the bucket of the
\* active UploaderConfig; the first one's slug is a prefix of the second's.
StorageTenants(used) ==
    << Row(<<"a">>, <<"a">>, "k1", Some(MaxQuota), used, "b1", "r1", "ak1", "sk1"),
       Row(<<"a", "b">>, <<"a", "b">>, "k2", Some(MaxQuota), Some(0), "b1", "r1", "ak1", "sk1") >>
ObjectKeys ==
    {UploadKey(StorageTenants(NULL)[i], l, f) : i \in 1..2, l \in LocTags, f \in FileNames}

\* mimetypes.guess_type(file_name): None for a name without an extension.
guess_type(file_name) == NULL

NoCapability ==
    [kind |-> "", bucket |-> "", key |-> <<>>, content_type |-> NULL,
     min_size |-> 0, max_size |-> 0, expires_in |-> 0]
\* s3_client.generate_presigned_post(...) (company.py:301-310)
Mut_generate_presigned_post(bucket, key, filetype, content_size) ==
    [kind |-> "upload", bucket |-> bucket, key |-> key, content_type |-> filetype,
     min_size |-> 0, max_size |-> content_size, expires_in |-> ExpiresIn]
generate_presigned_post(bucket, key, filetype, content_size) ==
    [kind |-> "upload", bucket |-> bucket, key |-> key, content_type |-> filetype,
     min_size |-> MinContentLength, max_size |-> content_size, expires_in |-> ExpiresIn]
\* s3_client.generate_presigned_url('get_object', ...) (company.py:329-333)
generate_presigned_url(bucket, key) ==
    [kind |-> "download", bucket |-> bucket, key |-> key, content_type |-> NULL,
     min_size |-> 0, max_size |-> 0, expires_in |-> ExpiresIn]

NoS3 ==
    [called |-> FALSE, op |-> "", api_key |-> "", tenant |-> 0, loc_tag |-> <<>>,
     file_name |-> <<>>, content_size |-> 0, backend |-> "ok", status |-> 0,
     detail |-> "", capability |-> NoCapability, total_size |-> NULL]

\* How the storage backend answers a call: normally, with a ClientError that
\* is no 404 (access denied), or not at all (botocore raises
\* EndpointConnectionError or a timeout, which are no ClientError).
Backends == {"ok", "access_denied", "unreachable"}

S3Idle ==
    /\ collation = "general_ci"
    /\ s3Objects = {}
    /\ lastS3 = NoS3

\* The request as get_company_by_api_key leaves it: answered 400 when the
\* key resolves to no tenant, otherwise handed to the handler with its tenant.
Resolved(op, api_key) ==
    LET err == ResolveError("routes", companies, api_key)
    IN [NoS3 EXCEPT !.called = TRUE, !.op = op, !.api_key = api_key,
                    !.tenant = FirstByApiKey(companies, api_key),
                    !.status = err.status, !.detail = err.detail]

\* POST /generate/presigned/url/upload (company.py:273-315)
\* head_object answers for an existing object and raises ClientError for an
\* absent one and for every other error answer of the backend; the handler
\* takes every ClientError for "not found" (company.py:297-299).
ProbeSaysAbsent(key, backend) ==
    \/ backend = "ok" /\ key \notin s3Objects
    \/ backend = "access_denied"

generate_presigned_upload_url(api_key, loc_tag, file_name, content_size, backend) ==
    LET req == [Resolved("upload", api_key) EXCEPT !.loc_tag = loc_tag,
                    !.file_name = file_name, !.content_size = content_size]
    IN /\ IF req.tenant = 0 THEN lastS3' = req
          ELSE LET company == companies[req.tenant]
                   key == UploadKey(company, loc_tag, file_name)
                   call == [req EXCEPT !.backend = backend]
               IN IF backend = "unreachable"
                  THEN lastS3' = [call EXCEPT !.status = 500,
                                              !.detail = "EndpointConnectionError"]
                  ELSE IF ~ProbeSaysAbsent(key, backend)
                  THEN lastS3' = [call EXCEPT !.status = 400, !.detail = "File found"]
                  ELSE lastS3' = [call EXCEPT !.status = 200,
                            !.capability = generate_presigned_post(
                                company.aws_bucket_name, key,
                                guess_type(file_name), content_size)]
       /\ UNCHANGED <<companies, collation, s3Objects>>
       /\ UNCHANGED <<quotaVars, regVars, jwtVars, clientVars>>

\* request.path_params.get('object_key'): the value the router put under
\* that name, None when the matched path has no such parameter. The route
\* of the handler declares none; how the router is mounted is not part of
\* the handler.
PathObjectKeys == {NULL} \cup {Some(k) : k \in ObjectKeys}

\* GET /generate/presigned/url/download (company.py:318-338). boto3 refuses
\* a Key of None with ParamValidationError, which is no ClientError.
generate_presigned_download_url(api_key, object_key) ==
    LET req == Resolved("download", api_key)
    IN /\ IF req.tenant = 0 THEN lastS3' = req
          ELSE IF object_key = NULL
          THEN lastS3' = [req EXCEPT !.status = 500, !.detail = "ParamValidationError"]
          ELSE lastS3' = [req EXCEPT !.status = 200,
                    !.capability = generate_presigned_url(
                        companies[req.tenant].aws_bucket_name, Get(object_key))]
       /\ UNCHANGED <<companies, collation, s3Objects>>
       /\ UNCHANGED <<quotaVars, regVars, jwtVars, clientVars>>

\* if not folder_prefix.endswith('/'): folder_prefix += '/' (company.py:185-186
\* and 212-213)
MutWithTrailingSlash(folder_prefix) == folder_prefix
WithTrailingSlash(folder_prefix) ==
    IF folder_prefix # <<>> /\ folder_prefix[Len(folder_prefix)] = "/"
    THEN folder_prefix
    ELSE folder_prefix \o Slash

\* The keys list_objects_v2 reports for the prefix.
list_objects_v2(folder_prefix) == {k \in s3Objects : StartsWith(k, folder_prefix)}

\* is_s3_folder_empty (company.py:171-197)
is_s3_folder_empty(folder_prefix) == list_objects_v2(WithTrailingSlash(folder_prefix)) = {}

\* delete_s3_folder_contents (company.py:200-230): what is left in the bucket
delete_s3_folder_contents(folder_prefix) ==
    s3Objects \ list_objects_v2(WithTrailingSlash(folder_prefix))

\* POST /delete/files (company.py:233-270)
delete_files(api_key, loc_tag, backend) ==
    LET req == [Resolved("delete", api_key) EXCEPT !.loc_tag = loc_tag]
    IN /\ IF req.tenant = 0
          THEN lastS3' = req /\ UNCHANGED s3Objects
          ELSE LET folder_prefix == FolderPrefix(companies[req.tenant], loc_tag)
                   call == [req EXCEPT !.backend = backend]
               IN IF backend # "ok"
                  THEN /\ lastS3' = [call EXCEPT !.status = 500,
                                                 !.detail = "Something Went Wrong"]
                       /\ UNCHANGED s3Objects
                  ELSE IF is_s3_folder_empty(folder_prefix)
                  THEN /\ lastS3' = [call EXCEPT !.status = 406, !.detail = "Folder is empty"]
                       /\ UNCHANGED s3Objects
                  ELSE /\ s3Objects' = delete_s3_folder_contents(folder_prefix)
                       /\ lastS3' = [call EXCEPT !.status = 200,
                                        !.detail = "Files deleted successfully"]
       /\ UNCHANGED <<companies, collation, quotaVars, regVars, jwtVars, clientVars>>

\* Every object of the model has this size, one MiB.
ObjectSize == MinContentLength * MinContentLength
RECURSIVE SumSizes(_)
SumSizes(keys) ==
    IF keys = {} THEN 0
    ELSE LET k == CHOOSE x \in keys : TRUE
         IN ObjectSize + SumSizes(keys \ {k})

\* get_folder_size (filemeta.py:53-75): the prefix is used as given
get_folder_size(folder_prefix) == SumSizes(list_objects_v2(folder_prefix))

\* GET /folder/size (filemeta.py:89-105): nothing catches a failure of the
\* enumeration.
find_folder_size(api_key, loc_tag, backend) ==
    LET req == [Resolved("folder_size", api_key) EXCEPT !.loc_tag = loc_tag]
    IN /\ IF req.tenant = 0 THEN lastS3' = req
          ELSE LET folder_path == FolderPrefix(companies[req.tenant], loc_tag) \o Slash
                   call == [req EXCEPT !.backend = backend]
               IN IF backend # "ok"
                  THEN lastS3' = [call EXCEPT !.status = 500,
                            !.detail = IF backend = "access_denied"
                                       THEN "ClientError" ELSE "EndpointConnectionError"]
                  ELSE lastS3' = [call EXCEPT !.status = 200,
                            !.total_size = Some(get_folder_size(folder_path))]
       /\ UNCHANGED <<companies, collation, s3Objects>>
       /\ UNCHANGED <<quotaVars, regVars, jwtVars, clientVars>>

\* get_bucket_size(s3_client, bucket_name) (utils.py:93-115): megabytes, or
\* None after any exception.
get_bucket_size(backend) ==
    /\ lastS3' = [NoS3 EXCEPT !.called = TRUE, !.op = "bucket_size",
                              !.backend = backend,
                              !.total_size = IF backend # "ok" THEN NULL
                                  ELSE Some(SumSizes(s3Objects) \div (1024 * 1024))]
    /\ UNCHANGED <<companies, collation, s3Objects>>
    /\ UNCHANGED <<quotaVars, regVars, jwtVars, clientVars>>

\* A client uploads through a grant, or an object is put by other means: an
\* object appears at the key.
PutObject(key) ==
    /\ key \notin s3Objects
    /\ s3Objects' = s3Objects \cup {key}
    /\ lastS3' = NoS3
    /\ UNCHANGED <<companies, collation, quotaVars, regVars, jwtVars, clientVars>>

\* Time passes: by one tick, or by JWT_TTL - 1 seconds at once. The calls
\* recorded for the instant are forgotten.
Pass(limit) ==
    /\ \E d \in {1, (JWT_TTL - 1) * TicksPerSecond} :
        /\ clock + d <= limit
        /\ clock' = clock + d
    /\ lastSign' = NoCall
    /\ lastDecode' = NoCall
    /\ lastCredential' = NoCredential
    /\ UNCHANGED <<keyFiles, userTokens, adminClients>>
    /\ UNCHANGED <<companies, quotaVars, regVars, s3Vars>>

\* Time as the user tokens see it, up to the last expiry and beyond.
Tick == Pass(MaxClock)

\* Time as the service tokens see it, up to the last sampled exp and beyond.
ClientTick == Pass((MaxExp + SlackSeconds) * TicksPerSecond)

-----------------------------------------------------------------------------
(* The quota-ledger specification *)

\* Two tenants exist. The quota columns of the first (both nullable,
\* models.py:69-70) start unset, zero or positive; the second is a freshly
\* registered tenant no request addresses.
Init ==
    /\ \E total \in {NULL, Some(0), Some(MaxQuota)}, used \in NullableQuota :
         companies = << Row(<<"A", "b">>, <<"a", "b">>, "k1", total, used, "b1", "r1", "ak1", "sk1"),
                        Row(<<"B">>, <<"b">>, "k2", Some(MaxQuota), Some(0), "b1", "r1", "ak1", "sk1") >>
    /\ initialUsed = [i \in 1..Len(companies) |-> companies[i].used_quota]
    /\ reqs = [r \in Requests |-> IdleRequest]
    /\ uploaderConfigs = <<>>
    /\ regTokens = NoTokens
    /\ regs = [r \in Registrations |-> IdleRegistration]
    /\ JwtIdle
    /\ ClientIdle
    /\ S3Idle

Next ==
    \E r \in Requests :
        \/ Resolve(r)
        \/ update_company_quota(r)
        \/ api_update_company_quota(r)
        \/ Respond(r)
        \/ is_company_quota_available(r)

Spec == Init /\ [][Next]_vars

-----------------------------------------------------------------------------
(* The registration specification *)

\* A tenant the companies table holds when the service starts.
SeedCompany == Row(<<"A", "b">>, <<"a", "b">>, "k1", Some(MaxQuota), Some(0), "b0", "r0", "ak0", "sk0")
\* The contents of uploader_config, which no handler writes: empty, one
\* inactive record, an inactive record before an active one, or an active
\* record without a default quota (the column is nullable, models.py:53).
ConfigTables ==
    { <<>>,
      << UploaderConfig(0, Some(MaxQuota), "b1", "r1", "ak1", "sk1") >>,
      << UploaderConfig(0, Some(MaxQuota), "b1", "r1", "ak1", "sk1"), UploaderConfig(1, Some(MaxQuota), "b2", "r2", "ak2", "sk2") >>,
      << UploaderConfig(1, NULL, "b3", "r3", "ak3", "sk3") >> }

InitReg ==
    /\ companies \in { <<>>, <<SeedCompany>> }
    /\ uploaderConfigs \in ConfigTables
    /\ regTokens = NoTokens
    /\ regs = [r \in Registrations |-> IdleRegistration]
    /\ initialUsed = <<>>
    /\ reqs = [r \in Requests |-> IdleRequest]
    /\ JwtIdle
    /\ ClientIdle
    /\ S3Idle

NextReg ==
    \/ \E r \in Registrations :
        \/ register_company(r)
        \/ register_company_commit(r)
        \/ api_register_company(r)
    \/ \E t \in TokenStrings :
        \/ IssueToken(t)
        \/ ExpireToken(t)

SpecReg == InitReg /\ [][NextReg]_vars

-----------------------------------------------------------------------------
(* Properties of the quota ledger *)

\* The request's handler runs its step now.
Handles(r) == reqs[r].pc = "resolved" /\ reqs'[r].pc # "resolved"
\* The value the request loaded is still the one the table holds: no other
\* adjustment of the tenant committed since the request read it, as in every
\* serial execution.
Fresh(r) == companies[reqs[r].row].used_quota = reqs[r].used
Committed(r) ==
    \/ reqs[r].pc = "committed"
    \/ reqs[r].pc = "done" /\ reqs[r].resp.status = 200
IsIncrease(r) ==
    /\ reqs[r].op = "quota" /\ reqs[r].txn = 1
    /\ reqs[r].amount # NULL /\ reqs[r].used # NULL /\ Get(reqs[r].used) >= 0
IsDecrease(r) ==
    /\ reqs[r].op = "quota" /\ reqs[r].txn # 1
    /\ reqs[r].amount # NULL /\ reqs[r].used # NULL

\* C1: for any interleaving of N concurrent increases of size d each against
\* one tenant, once all have committed the tenant's used_quota is its
\* initial value + N*d (here N = MaxRequests).
C1_NoLostUpdate ==
    \A i \in 1..Len(companies), d \in 0..MaxDelta :
        ( /\ initialUsed[i] # NULL
          /\ \A r \in Requests :
                /\ Committed(r) /\ IsIncrease(r)
                /\ reqs[r].row = i /\ reqs[r].amount = Some(d) )
        => companies[i].used_quota = Some(Get(initialUsed[i]) + MaxRequests * d)

\* C2 (first part): a decrease with amount d sets used_quota to
\* max(0, previous used_quota - d).
DecreaseClamps ==
    \A r \in Requests :
        (IsDecrease(r) /\ Fresh(r) /\ Handles(r))
        => /\ reqs'[r].pc = "committed"
           /\ companies'[reqs[r].row].used_quota =
                Some(Max(0, Get(reqs[r].used) - Get(reqs[r].amount)))
\* C2 (second part): starting from used_quota = 0, used_quota >= 0 in every
\* reachable state.
NeverNegative ==
    \A i \in 1..Len(companies) :
        (initialUsed[i] = Some(0) /\ companies[i].used_quota # NULL)
        => Get(companies[i].used_quota) >= 0
\* C2: a decrease subtracts and clamps at zero, so used_quota never goes
\* below zero.
C2_DecreaseSubtractsClamped == [][DecreaseClamps]_vars /\ []NeverNegative

\* An increase by a request whose loaded value is current commits u + d.
IncreaseAdds(r) ==
    /\ reqs'[r].pc = "committed"
    /\ companies'[reqs[r].row].used_quota =
            Some(Get(reqs[r].used) + Get(reqs[r].amount))
\* The response of an increase whose committed value the table still holds
\* carries that value.
IncreaseReturnsNew ==
    \A r \in Requests :
        ( /\ IsIncrease(r) /\ reqs[r].pc = "committed" /\ reqs'[r].pc = "done"
          /\ companies[reqs[r].row].used_quota =
                Some(Get(reqs[r].used) + Get(reqs[r].amount)) )
        => /\ reqs'[r].resp.status = 200
           /\ reqs'[r].resp.used_quota = Some(Get(reqs[r].used) + Get(reqs[r].amount))

C4_AvailabilityOfSetQuota ==
    \A r \in Requests :
        (reqs[r].pc = "done" /\ reqs[r].op = "avail" /\ reqs[r].row # 0)
        => IF reqs[r].total # NULL /\ reqs[r].used # NULL
           THEN /\ reqs[r].resp.status = 200
                /\ reqs[r].resp.is_available = {~(Get(reqs[r].used) >= Get(reqs[r].total))}
           ELSE reqs[r].resp.status = 500

-----------------------------------------------------------------------------
(* Properties of tenant registration *)

\* The request's handler runs its queries now.
Begins(r) == regs[r].pc = "new" /\ regs'[r].pc # "new"
\* The request reached the handler: the routes application answers a request
\* without a bearer string before the handler runs.
Presented(r) == regs'[r].app = "routes" => regs'[r].token # ""
NameTaken(name) == \E i \in 1..Len(companies) : companies[i].company_name = name
SlugTaken(name) == \E i \in 1..Len(companies) : companies[i].company_slug = slugify(name)

C8_ConflictIffDuplicate ==
    [][\A r \in Registrations :
          (Begins(r) /\ Presented(r)) =>
            IF NameTaken(regs'[r].name) \/ SlugTaken(regs'[r].name)
            THEN /\ regs'[r].pc = "done"
                 /\ regs'[r].resp.status = 409
                 /\ companies' = companies
            ELSE regs'[r].resp.status # 409]_vars

\* C9: registration (under a name no tenant has) while no uploader_config
\* record is active fails with the configuration fault and leaves the
\* companies table unchanged.
C9_NoActiveConfigIsConfigurationFault ==
    [][\A r \in Registrations :
          ( /\ Begins(r) /\ regs'[r].app = "routes" /\ regs'[r].token # ""
            /\ FirstActiveConfig(uploaderConfigs) = 0
            /\ ~NameTaken(regs'[r].name) /\ ~SlugTaken(regs'[r].name) )
          => /\ regs'[r].pc = "done"
             /\ regs'[r].resp = RegResponse(404, "Active AWS Config is not found")
             /\ companies' = companies]_vars

-----------------------------------------------------------------------------
(* The user-token specification *)

InitJwt ==
    /\ clock = 0
    /\ keyFiles \in {f \in [KeyFileNames -> KeyFileStates] :
                        f["service_public"] = "readable"}
    /\ ClientIdle
    /\ S3Idle
    /\ userTokens = {}
    /\ lastSign = NoCall
    /\ lastDecode = NoCall
    /\ companies = <<>>
    /\ initialUsed = <<>>
    /\ reqs = [r \in Requests |-> IdleRequest]
    /\ uploaderConfigs = <<>>
    /\ regTokens = NoTokens
    /\ regs = [r \in Registrations |-> IdleRegistration]

NextJwt ==
    \/ \E user_id \in UserIds : sign_jwt(user_id)
    \/ \E token \in IssuableJwts \cup OtherJwts : decode_jwt(token)
    \/ Tick

SpecJwt == InitJwt /\ [][NextJwt]_vars

-----------------------------------------------------------------------------
(* Properties of user tokens *)

\* C10: a user token issued by sign_jwt at time t carries expires = t + 600
\* (rounded to the whole second); with the public key in place decode_jwt
\* accepts it at every time up to t + 599 and rejects it at every time from
\* t + 601 on, and it rejects every correctly signed user token whose
\* expires claim is earlier than the current time.
C10_UserTokenLifetime ==
    /\ (lastSign.called /\ lastSign.result # NULL) =>
        LET expires == lastSign.token.payload.expires
        IN /\ 2 * (expires * TicksPerSecond - (clock + JWT_TTL * TicksPerSecond)) <= TicksPerSecond
           /\ 2 * ((clock + JWT_TTL * TicksPerSecond) - expires * TicksPerSecond) <= TicksPerSecond
           /\ clock % TicksPerSecond = 0 => expires = clock \div TicksPerSecond + JWT_TTL
    /\ \A e \in userTokens :
        (lastDecode.called /\ lastDecode.token = e.token
            /\ keyFiles["user_public"] = "readable") =>
            /\ clock <= e.at + (JWT_TTL - 1) * TicksPerSecond
                    => lastDecode.result = Some(e.token.payload)
            /\ clock >= e.at + (JWT_TTL + 1) * TicksPerSecond
                    => lastDecode.result = NULL
    /\ ( /\ lastDecode.called
         /\ "expires" \in DOMAIN lastDecode.token.payload
         /\ lastDecode.token.payload.expires * TicksPerSecond < clock )
        => lastDecode.result = NULL

\* C10 witness: an issued token is accepted 599 seconds after its issue and
\* the clock can go on to the second 601.
C10_Witness ==
    \E e \in userTokens :
        /\ lastDecode.called /\ lastDecode.token = e.token
        /\ clock = e.at + (JWT_TTL - 1) * TicksPerSecond
        /\ lastDecode.result = Some(e.token.payload)

\* C11: decode_jwt returns None for every token that has no expires claim,
\* also when the token is well-formed and its signature verifies with the
\* public key.
C11_NoExpiresIsInvalid ==
    (lastDecode.called /\ "expires" \notin DOMAIN lastDecode.token.payload)
        => lastDecode.result = NULL

\* C11 witness: a token signed by the private key, without the expires
\* claim, was presented while the public key was readable.
C11_Witness ==
    /\ lastDecode.called
    /\ "expires" \notin DOMAIN lastDecode.token.payload
    /\ keyFiles["user_public"] = "readable"
    /\ Verifies(lastDecode.token, "user_public")
    /\ lastDecode.result = NULL

\* C12: when the key file is missing or unreadable, sign_jwt returns None
\* and decode_jwt returns None for every input, and neither raises to its
\* caller.
C12_KeyFileFaultFailsCleanly ==
    /\ (lastSign.called /\ keyFiles["user_private"] # "readable")
            => (lastSign.result = NULL /\ ~lastSign.raised)
    /\ (lastDecode.called /\ keyFiles["user_public"] # "readable")
            => (lastDecode.result = NULL /\ ~lastDecode.raised)

\* C12 witness: sign_jwt was called with the private key file unreadable,
\* and decode_jwt with the public key file unreadable on a token that the
\* private key signed and that has not expired.
C12_Witness ==
    /\ lastSign.called /\ keyFiles["user_private"] = "unreadable"
    /\ lastSign.result = NULL
    /\ lastDecode.called /\ keyFiles["user_public"] = "unreadable"
    /\ Verifies(lastDecode.token, "user_public")
    /\ "expires" \in DOMAIN lastDecode.token.payload
    /\ NotExpired(lastDecode.token.payload.expires, clock)
    /\ lastDecode.result = NULL

-----------------------------------------------------------------------------
(* The service-credential specification *)

InitClient ==
    /\ clock = 0
    /\ keyFiles \in {f \in [KeyFileNames -> KeyFileStates] :
                        f["user_private"] = "readable" /\ f["user_public"] = "readable"}
    /\ userTokens = {}
    /\ lastSign = NoCall
    /\ lastDecode = NoCall
    /\ ClientIdle
    /\ S3Idle
    /\ companies = <<>>
    /\ initialUsed = <<>>
    /\ reqs = [r \in Requests |-> IdleRequest]
    /\ uploaderConfigs = <<>>
    /\ regTokens = NoTokens
    /\ regs = [r \in Registrations |-> IdleRegistration]

NextClient ==
    \/ \E client_id \in ClientIds, secret \in {"s1"} : create_client(client_id, secret)
    \/ \E token \in ServiceTokens : get_current_client(token)
    \/ \E token \in ServiceTokens : validate_token(token)
    \/ \E secret \in Secrets, digest \in Digests : verify_secret(secret, digest)
    \/ ClientTick

SpecClient == InitClient /\ [][NextClient]_vars

-----------------------------------------------------------------------------
(* Properties of service credentials *)

\* C13: get_current_client returns a client id only when the token's
\* signature verifies, its role claim is "client", its sub claim is the id
\* of an existing AdminClient and its exp is not before the current second;
\* a token failing any of these gets no client id.
C13_ClientIdOnlyForValidToken ==
    (lastCredential.called /\ lastCredential.op = "get_current_client") =>
        LET token == lastCredential.token
            payload == token.payload
            Accepted == /\ lastCredential.outcome.kind = "return"
                        /\ lastCredential.outcome.value = payload.sub
        IN IF /\ Verifies(token, "service_public")
              /\ "role" \in DOMAIN payload /\ payload.role = "client"
              /\ "sub" \in DOMAIN payload
              /\ payload.sub \in {c.client_id : c \in adminClients}
              /\ "exp" \in DOMAIN payload
              /\ payload.exp >= clock \div TicksPerSecond
           THEN keyFiles["service_public"] = "readable" => Accepted
           ELSE lastCredential.outcome.kind # "return"

\* C13 witness: a client id was returned for a token in the last second of
\* its life.
C13_Witness ==
    /\ lastCredential.called /\ lastCredential.op = "get_current_client"
    /\ lastCredential.outcome.kind = "return"
    /\ lastCredential.outcome.value = "c1"
    /\ lastCredential.token.payload.exp = clock \div TicksPerSecond
    /\ clock % TicksPerSecond # 0

\* C20: credential verification never raises across the credential
\* boundary: verify_secret, get_current_client and validate_token report a
\* failure as a false or invalid result (for the token checks, the
\* HTTPException that says so), never as an uncaught exception.
C20_VerificationNeverRaises ==
    lastCredential.called => lastCredential.outcome.kind # "raise"

-----------------------------------------------------------------------------
(* The two token schemes side by side *)

InitTrust ==
    /\ JwtIdle
    /\ ClientIdle
    /\ S3Idle
    /\ companies = <<>>
    /\ initialUsed = <<>>
    /\ reqs = [r \in Requests |-> IdleRequest]
    /\ uploaderConfigs = <<>>
    /\ regTokens = NoTokens
    /\ regs = [r \in Registrations |-> IdleRegistration]

NextTrust ==
    \/ \E client_id \in ClientIds, secret \in {"s1"} : create_client(client_id, secret)
    \/ \E user_id \in UserIds : sign_jwt(user_id)
    \/ \E token \in UserTokensIssuable : get_current_client(token)
    \/ \E token \in AccessTokens : get_current_client(token)
    \/ \E token \in AccessTokens : decode_jwt(token)
    \/ \E e \in userTokens : decode_jwt(e.token)
    \/ ClientTick

SpecTrust == InitTrust /\ [][NextTrust]_vars

\* C22: the two token schemes are separate trust domains: a token issued by
\* sign_jwt (claims user_id and expires) is never accepted by
\* get_current_client, and a token issued by create_access_token (claims
\* sub, role, scope and exp) is never accepted by decode_jwt, whichever key
\* signed it.
C22_SeparateTrustDomains ==
    /\ ( /\ lastCredential.called /\ lastCredential.op = "get_current_client"
         /\ DOMAIN lastCredential.token.payload = {"user_id", "expires"} )
            => lastCredential.outcome.kind # "return"
    /\ ( /\ lastDecode.called
         /\ DOMAIN lastDecode.token.payload = {"sub", "role", "scope", "exp"} )
            => lastDecode.result = NULL

\* C22 witness: at one instant get_current_client was given a user token
\* whose signature verifies under the service key, with the client table
\* holding a client, and decode_jwt a service token whose signature verifies
\* under the user key; the same validators accept their own tokens.
C22_Witness ==
    /\ adminClients # {}
    /\ lastCredential.called /\ lastCredential.op = "get_current_client"
    /\ DOMAIN lastCredential.token.payload = {"user_id", "expires"}
    /\ Verifies(lastCredential.token, "service_public")
    /\ lastDecode.called
    /\ DOMAIN lastDecode.token.payload = {"sub", "role", "scope", "exp"}
    /\ Verifies(lastDecode.token, "user_public")
    /\ \E token \in AccessTokens : CurrentClient(token, clock).kind = "return"
    /\ \E e \in userTokens : DecodeResult(e.token, clock) # NULL

-----------------------------------------------------------------------------
(* The storage specification *)

InitS3 ==
    /\ companies \in {StorageTenants(used) : used \in {Some(0), Some(MaxQuota)}}
    /\ collation \in Collations
    /\ s3Objects = {}
    /\ lastS3 = NoS3
    /\ JwtIdle
    /\ ClientIdle
    /\ initialUsed = <<>>
    /\ reqs = [r \in Requests |-> IdleRequest]
    /\ uploaderConfigs = <<>>
    /\ regTokens = NoTokens
    /\ regs = [r \in Registrations |-> IdleRegistration]

NextS3 ==
    \/ \E api_key \in StorageKeys, loc_tag \in LocTags, file_name \in FileNames,
          content_size \in ContentSizes :
            generate_presigned_upload_url(api_key, loc_tag, file_name, content_size, "ok")
    \/ \E api_key \in StorageKeys, object_key \in PathObjectKeys :
            generate_presigned_download_url(api_key, object_key)
    \/ \E api_key \in StorageKeys, loc_tag \in LocTags : delete_files(api_key, loc_tag, "ok")
    \/ \E key \in ObjectKeys : PutObject(key)

SpecS3 == InitS3 /\ [][NextS3]_vars

-----------------------------------------------------------------------------
(* The storage specification with a backend that may fail *)

InitS3Faults ==
    /\ companies = StorageTenants(Some(0))
    /\ S3Idle
    /\ JwtIdle
    /\ ClientIdle
    /\ initialUsed = <<>>
    /\ reqs = [r \in Requests |-> IdleRequest]
    /\ uploaderConfigs = <<>>
    /\ regTokens = NoTokens
    /\ regs = [r \in Registrations |-> IdleRegistration]

NextS3Faults ==
    \/ \E api_key \in {"k1", "k9"}, loc_tag \in LocTags, file_name \in FileNames,
          content_size \in ContentSizes, backend \in Backends :
            generate_presigned_upload_url(api_key, loc_tag, file_name, content_size, backend)
    \/ \E api_key \in {"k1", "k9"}, loc_tag \in LocTags, backend \in Backends :
            delete_files(api_key, loc_tag, backend)
    \/ \E api_key \in {"k1", "k9"}, loc_tag \in LocTags, backend \in Backends :
            find_folder_size(api_key, loc_tag, backend)
    \/ \E backend \in Backends : get_bucket_size(backend)
    \/ \E key \in ObjectKeys : PutObject(key)

SpecS3Faults == InitS3Faults /\ [][NextS3Faults]_vars

-----------------------------------------------------------------------------
(* Properties of the storage broker *)

\* C14: generate_presigned_upload_url for a key at which an object already
\* exists refuses ('File found') and issues no capability; for a key with no
\* object it returns a capability whose content-length-range has lower bound
\* exactly 1024 and upper bound the caller's content_size, expiring in 3600
\* seconds.
C14_UploadGrantOnlyForFreshKey ==
    (lastS3.called /\ lastS3.op = "upload" /\ lastS3.tenant # 0) =>
        LET key == UploadKey(companies[lastS3.tenant], lastS3.loc_tag, lastS3.file_name)
        IN IF key \in s3Objects
           THEN /\ lastS3.status = 400 /\ lastS3.detail = "File found"
                /\ lastS3.capability = NoCapability
           ELSE /\ lastS3.status = 200
                /\ lastS3.capability.kind = "upload"
                /\ lastS3.capability.key = key
                /\ lastS3.capability.min_size = 1024
                /\ lastS3.capability.max_size = lastS3.content_size
                /\ lastS3.capability.expires_in = 3600

\* C14 witness: a grant was issued for a fresh key while another object of
\* the tenant exists.
C14_Witness ==
    /\ lastS3.called /\ lastS3.op = "upload" /\ lastS3.tenant # 0
    /\ lastS3.capability.kind = "upload"
    /\ lastS3.capability.key \notin s3Objects
    /\ \E k \in s3Objects : StartsWith(k, companies[lastS3.tenant].company_slug \o Slash)

DeleteAllOrRefuse ==
    (lastS3'.called /\ lastS3'.op = "delete" /\ lastS3'.tenant # 0) =>
        LET p == FolderPrefix(companies[lastS3'.tenant], lastS3'.loc_tag)
            prefix == IF p[Len(p)] = "/" THEN p ELSE p \o Slash
        IN IF \A k \in s3Objects : ~StartsWith(k, prefix)
           THEN /\ lastS3'.status = 406 /\ lastS3'.detail = "Folder is empty"
                /\ s3Objects' = s3Objects
           ELSE /\ lastS3'.status = 200
                /\ \A k \in s3Objects' : ~StartsWith(k, prefix)
C16_DeleteAllOrRefuse == [][DeleteAllOrRefuse]_vars

\* C16 witness: a folder was emptied while an object of a folder whose name
\* only begins alike stays in the bucket.
C16_Witness ==
    /\ lastS3.called /\ lastS3.op = "delete" /\ lastS3.status = 200
    /\ lastS3.loc_tag = <<"t">>
    /\ \E k \in s3Objects :
            StartsWith(k, FolderPrefix(companies[lastS3.tenant], lastS3.loc_tag))

\* C17: no upload capability is issued to a tenant whose used_quota has
\* reached its total_usage_quota; the request fails instead.
C17_NoUploadGrantWithoutQuota ==
    ( /\ lastS3.called /\ lastS3.op = "upload" /\ lastS3.tenant # 0
      /\ companies[lastS3.tenant].used_quota # NULL
      /\ companies[lastS3.tenant].total_usage_quota # NULL
      /\ Get(companies[lastS3.tenant].used_quota)
            >= Get(companies[lastS3.tenant].total_usage_quota) )
        => (lastS3.capability = NoCapability /\ lastS3.status # 200)

\* C18: tenant resolution gives a tenant only if that tenant's stored API
\* key equals the presented key exactly; a presented key that equals no
\* stored key (a case variant or a prefix of one included) or that is absent
\* gets the 400 error and no tenant.
C18_ExactKeyResolution ==
    lastS3.called =>
        IF \E i \in 1..Len(companies) : companies[i].company_api_key = lastS3.api_key
        THEN /\ lastS3.tenant # 0
             /\ companies[lastS3.tenant].company_api_key = lastS3.api_key
        ELSE /\ lastS3.tenant = 0
             /\ lastS3.status = 400
             /\ lastS3.capability = NoCapability

-----------------------------------------------------------------------------
(* Uniqueness of tenants *)

AdjustsTenant(r, i) ==
    /\ reqs[r].pc = "resolved" /\ reqs[r].op = "quota"
    /\ reqs'[r].pc = "committed"
    /\ reqs[r].row = i
    /\ FirstByApiKey(companies, reqs[r].key) = i

C21_BackendFailureIsAnError ==
    (lastS3.called /\ lastS3.backend # "ok") =>
        /\ lastS3.capability = NoCapability
        /\ lastS3.total_size = NULL
        /\ lastS3.op # "bucket_size" => lastS3.status >= 500

=============================================================================
